---- MODULE Spec2Model ----
(***************************************************************************)
(* SchoolDigger MCP server (src/server.py): five tools that each build a   *)
(* query-parameter mapping, hand it to call_school_digger_api, which adds  *)
(* the credential pair, issues one requests.get and turns the response or  *)
(* a RequestException into the returned value; and one static resource.    *)
(*                                                                         *)
(* Python values are tagged records: None, str (a sequence of pieces of    *)
(* text, every "/" a piece of its own), int, dict (a function from keys to *)
(* values), list.  "Sent upstream" is                                      *)
(* the pair (url, params) handed to requests.get at server.py:31.          *)
(* The exception hierarchy is that of requests >= 2.27, where the          *)
(* JSONDecodeError raised by Response.json() is a RequestException.        *)
(***************************************************************************)
EXTENDS Integers, Sequences, FiniteSets, TLC

VARIABLES APP_ID, APP_KEY, pc, call, req, gets, outcome, result, history, levels

vars == <<APP_ID, APP_KEY, pc, call, req, gets, outcome, result, history, levels>>

-----------------------------------------------------------------------------
(* Python values *)

None == [t |-> "none"]

\* an argument the caller did not pass: the signature's default applies
Unset == [t |-> "unset"]

Str(s) == [t |-> "str", v |-> s]

Num(n) == [t |-> "int", v |-> n]

Dict(f) == [t |-> "dict", v |-> f]

List(s) == [t |-> "list", v |-> s]

\* Truthy with the test written `is not None`: an empty string counts as given
TruthyIsNotNone(x) == x.t # "none"

\* Python truthiness, as used by `if query:` and `if params:`
Truthy(x) ==
    CASE x.t = "none" -> FALSE
      [] x.t = "str"  -> x.v # <<>>
      [] x.t = "int"  -> x.v # 0
      [] x.t = "dict" -> DOMAIN x.v # {}
      [] x.t = "list" -> x.v # <<>>

\* a parameter with a default value in the signature
Default(arg, d) == IF arg = Unset THEN d ELSE arg

\* d with the entry k: v set (d[k] = v)
SetItem(d, k, v) == [x \in DOMAIN d \cup {k} |-> IF x = k THEN v ELSE d[x]]

\* Update with the precedence reversed: the entries of a are kept
UpdateKeepingOld(a, b) == [x \in DOMAIN a \cup DOMAIN b |-> IF x \in DOMAIN a THEN a[x] ELSE b[x]]

\* dict.update: the entries of b are written over those of a
Update(a, b) == [x \in DOMAIN a \cup DOMAIN b |-> IF x \in DOMAIN b THEN b[x] ELSE a[x]]

RECURSIVE lstrip(_, _)
\* str.lstrip(ch): s without its leading run of ch
lstrip(s, ch) == IF s # <<>> /\ Head(s) = ch THEN lstrip(Tail(s), ch) ELSE s

-----------------------------------------------------------------------------
(* Module constants *)

SCHOOL_DIGGER_BASE_API == <<"https:", "/", "/", "api.schooldigger.com", "/", "v2.3", "/">>

S_schools == <<"schools">>

S_districts == <<"districts">>

S_autocomplete_schools == <<"autocomplete", "/", "schools">>

S_rank == <<"rank">>

SchoolLevelsText ==
    <<"Elementary: Grades K-5", "Middle: Grades 6-8", "High: Grades 9-12",
      "Private: Private institutions", "Alt: Alternative education programs">>

\* get_school_levels answering from the last upstream result
get_school_levels_fetched ==
    IF result # [t |-> "nil"] /\ result.kind = "return" /\ result.v.t = "dict"
       /\ "error" \in DOMAIN result.v.v
    THEN Str(<<"unavailable">>)
    ELSE Str(SchoolLevelsText)

\* the static resource schooldigger://school-levels
get_school_levels == Str(SchoolLevelsText)

-----------------------------------------------------------------------------
(* The tools: each yields the (endpoint, params) it passes to             *)
(* call_school_digger_api.                                                 *)

ApiCall(endpoint, params) == [endpoint |-> endpoint, params |-> params]

search_schools(a) ==
    LET query        == Default(a.query, None)
        city         == Default(a.city, None)
        state        == Default(a.state, None)
        zip_code     == Default(a.zip_code, None)
        school_level == Default(a.school_level, None)
        sort_by      == Default(a.sort_by, Str(S_rank))
        per_page     == Default(a.per_page, Num(5))
        p0 == [perPage |-> per_page, sortBy |-> sort_by]
        p1 == IF Truthy(query) THEN SetItem(p0, "q", query) ELSE p0
        p2 == IF Truthy(city) THEN SetItem(p1, "city", city) ELSE p1
        p3 == IF Truthy(state) THEN SetItem(p2, "st", state) ELSE p2
        p4 == IF Truthy(zip_code) THEN SetItem(p3, "zip", zip_code) ELSE p3
        p5 == IF Truthy(school_level) THEN SetItem(p4, "level", school_level) ELSE p4
    IN  ApiCall(S_schools, Dict(p5))

search_autocomplete_schools(a) ==
    LET query       == a.query
        max_results == Default(a.max_results, Num(10))
    IN  ApiCall(S_autocomplete_schools,
                Dict([q |-> query, returnCount |-> max_results]))

get_school_details(a) == ApiCall(S_schools \o <<"/">> \o a.school_id.v, None)

\* search_districts sending the sort order under search_schools' key
search_districts_sortBy(a) ==
    LET city     == Default(a.city, None)
        state    == Default(a.state, None)
        query    == Default(a.query, None)
        zip_code == Default(a.zip_code, None)
        sort_by  == Default(a.sort_by, Str(S_rank))
        per_page == Default(a.per_page, Num(5))
        p0 == [perPage |-> per_page, sortBy |-> sort_by]
        p1 == IF Truthy(city) THEN SetItem(p0, "city", city) ELSE p0
        p2 == IF Truthy(state) THEN SetItem(p1, "st", state) ELSE p1
        p3 == IF Truthy(zip_code) THEN SetItem(p2, "zip", zip_code) ELSE p2
        p4 == IF Truthy(query) THEN SetItem(p3, "q", query) ELSE p3
    IN  ApiCall(S_districts, Dict(p4))

search_districts(a) ==
    LET city     == Default(a.city, None)
        state    == Default(a.state, None)
        query    == Default(a.query, None)
        zip_code == Default(a.zip_code, None)
        sort_by  == Default(a.sort_by, Str(S_rank))
        per_page == Default(a.per_page, Num(5))
        p0 == [perPage |-> per_page, sort |-> sort_by]
        p1 == IF Truthy(city) THEN SetItem(p0, "city", city) ELSE p0
        p2 == IF Truthy(state) THEN SetItem(p1, "st", state) ELSE p1
        p3 == IF Truthy(zip_code) THEN SetItem(p2, "zip", zip_code) ELSE p2
        p4 == IF Truthy(query) THEN SetItem(p3, "q", query) ELSE p3
    IN  ApiCall(S_districts, Dict(p4))

get_district_details(a) == ApiCall(S_districts \o <<"/">> \o a.district_id.v, None)

\* the tool named c.tool applied to the arguments c.args
Dispatch(c) ==
    CASE c.tool = "search_schools"              -> search_schools(c.args)
      [] c.tool = "search_autocomplete_schools" -> search_autocomplete_schools(c.args)
      [] c.tool = "get_school_details"          -> get_school_details(c.args)
      [] c.tool = "search_districts"            -> search_districts(c.args)
      [] c.tool = "get_district_details"        -> get_district_details(c.args)
      [] c.tool = "call_school_digger_api"      -> ApiCall(c.args.endpoint, c.args.params)

-----------------------------------------------------------------------------
(* call_school_digger_api, lines 25-30: the request handed to requests.get *)

\* PrepareRequest sending the caller's mapping in place of the merged one
PrepareRequestUnmerged(endpoint, params) ==
    LET base_params == [appID |-> APP_ID, appKey |-> APP_KEY]
    IN  [url |-> SCHOOL_DIGGER_BASE_API \o lstrip(endpoint, "/"),
         params |-> IF Truthy(params) THEN params.v ELSE base_params]

RECURSIVE rstrip(_, _)
rstrip(s, ch) ==
    IF s # <<>> /\ s[Len(s)] = ch THEN rstrip(SubSeq(s, 1, Len(s) - 1), ch) ELSE s

\* PrepareRequest with endpoint.strip('/'): trailing slashes go too
PrepareRequestStrip(endpoint, params) ==
    LET base_params == [appID |-> APP_ID, appKey |-> APP_KEY]
        merged == IF Truthy(params) THEN Update(base_params, params.v) ELSE base_params
    IN  [url |-> SCHOOL_DIGGER_BASE_API \o rstrip(lstrip(endpoint, "/"), "/"),
         params |-> merged]

PrepareRequest(endpoint, params) ==
    LET base_params == [appID |-> APP_ID, appKey |-> APP_KEY]
        merged == IF Truthy(params) THEN Update(base_params, params.v) ELSE base_params
    IN  [url |-> SCHOOL_DIGGER_BASE_API \o lstrip(endpoint, "/"), params |-> merged]

-----------------------------------------------------------------------------
(* What requests.get, raise_for_status and Response.json() can do          *)

Exc(cls, msg) == [cls |-> cls, msg |-> msg]

\* an except clause naming HTTPError alone
OnlyHTTPError == {"HTTPError"}

\* requests.exceptions: the classes derived from RequestException
RequestException ==
    {"RequestException", "ConnectionError", "Timeout", "HTTPError", "JSONDecodeError"}

Raised(e) == [kind |-> "raise", exc |-> e]

Returned(v) == [kind |-> "return", v |-> v]

Response(status, body) == [kind |-> "response", status |-> status, body |-> body]

BodyObject == <<"{numberOfSchools: 0}">>

BodyArray == <<"[]">>

BodyErrorShaped == <<"{error: quota}">>

BodyHtml == <<"<html>">>

\* json.loads on the bodies above: the decoded value, or Nil for text that is not JSON
json_loads(text) ==
    CASE text = BodyObject      -> Dict([numberOfSchools |-> Num(0)])
      [] text = BodyArray       -> List(<<>>)
      [] text = BodyErrorShaped -> Dict([error |-> Str(<<"quota">>)])
      [] OTHER                  -> [t |-> "nil"]

IsJson(text) == json_loads(text).t # "nil"

\* raise_for_status raising for client errors only
raise_for_status_4xx(status, url) ==
    IF 400 <= status /\ status < 500
    THEN [kind |-> "raise",
          exc |-> [cls |-> "HTTPError",
                   msg |-> <<ToString(status), " Client Error for url: ">> \o url]]
    ELSE [kind |-> "return", v |-> None]

\* Response.raise_for_status(): an HTTPError for 4xx and 5xx, nothing otherwise
raise_for_status(status, url) ==
    IF 400 <= status /\ status < 500
    THEN Raised(Exc("HTTPError", <<ToString(status), " Client Error for url: ">> \o url))
    ELSE IF 500 <= status /\ status < 600
    THEN Raised(Exc("HTTPError", <<ToString(status), " Server Error for url: ">> \o url))
    ELSE Returned(None)

\* the body of the try statement, lines 30-33, given what requests.get did
TryBody(url, o) ==
    IF o.kind = "raise" THEN o
    ELSE LET checked == raise_for_status(o.status, url)
         IN  IF checked.kind = "raise" THEN checked
             ELSE IF ~IsJson(o.body)
             THEN Raised(Exc("JSONDecodeError", <<"Expecting value">>))
             ELSE Returned(json_loads(o.body))

\* the except clause, lines 34-36
ExceptClause(r) ==
    IF r.kind = "raise" /\ r.exc.cls \in RequestException
    THEN Returned(Dict([error |-> Str(r.exc.msg)]))
    ELSE r

-----------------------------------------------------------------------------
(* Inputs *)

MaxIdLen == 2

MaxCalls == 2

IdChars == {"7", "/"}

Seqs(S, n) == UNION {[1..k -> S] : k \in 0..n}

Ids == {Str(s) : s \in Seqs(IdChars, MaxIdLen)}

Opt(s) == {Unset, Str(<<>>), Str(s)}

SortBys == {Unset, Str(<<"name">>)}

PerPages == {Unset, Num(0)}

Call(tool, args) == [tool |-> tool, args |-> args]

SearchSchoolsArgs ==
    [query : Opt(<<"L">>), city : Opt(<<"C">>), state : Opt(<<"CA">>),
     zip_code : Opt(<<"9">>), school_level : Opt(<<"H">>),
     sort_by : SortBys, per_page : PerPages]

SearchDistrictsArgs ==
    [city : Opt(<<"C">>), state : Opt(<<"TX">>), query : Opt(<<"S">>),
     zip_code : Opt(<<"7">>), sort_by : SortBys, per_page : PerPages]

AutocompleteArgs == [query : {Str(<<>>), Str(<<"L">>)}, max_results : {Unset, Num(3)}]

ToolCalls ==
    {Call("search_schools", a) : a \in SearchSchoolsArgs}
    \cup {Call("search_autocomplete_schools", a) : a \in AutocompleteArgs}
    \cup {Call("get_school_details", [school_id |-> i]) : i \in Ids}
    \cup {Call("search_districts", a) : a \in SearchDistrictsArgs}
    \cup {Call("get_district_details", [district_id |-> i]) : i \in Ids}

RaiseOutcomes ==
    {Raised(Exc("ConnectionError", <<"Connection refused">>)),
     Raised(Exc("Timeout", <<"Read timed out">>))}

Statuses == {200, 304, 404, 500}

Bodies == {BodyObject, BodyArray, BodyErrorShaped, BodyHtml}

Outcomes == RaiseOutcomes \cup {Response(s, b) : s \in Statuses, b \in Bodies}

RepeatCalls ==
    {Call("search_schools",
          [query |-> Unset, city |-> c, state |-> Str(<<"CA">>), zip_code |-> Unset,
           school_level |-> Unset, sort_by |-> Unset, per_page |-> Unset]) :
        c \in {Unset, Str(<<"C">>)}}
    \cup {Call("search_autocomplete_schools", [query |-> Str(<<"L">>), max_results |-> Unset]),
          Call("get_school_details", [school_id |-> Str(<<"7">>)]),
          Call("search_districts",
               [city |-> Unset, state |-> Str(<<"TX">>), query |-> Unset,
                zip_code |-> Str(<<"7">>), sort_by |-> Unset, per_page |-> Unset]),
          Call("get_district_details", [district_id |-> Str(<<"7">>)])}

RepeatOutcomes ==
    {Raised(Exc("ConnectionError", <<"Connection refused">>)),
     Response(200, BodyObject), Response(200, BodyArray), Response(404, BodyErrorShaped)}

DirectEndpoints == {<<"schools">>, <<"/", "schools">>, <<"/", "/", "districts", "/", "7">>}

DirectParams ==
    {None, Dict(<<>>), Dict([q |-> Str(<<"L">>)]), Dict([appID |-> Str(<<"other">>)]),
     Dict([appKey |-> Str(<<"other">>), perPage |-> Num(5)])}

DirectCalls ==
    {Call("call_school_digger_api", [endpoint |-> e, params |-> p]) :
        e \in DirectEndpoints, p \in DirectParams}

CredIds == {None, Str(<<"id">>)}

CredKeys == {None, Str(<<"key">>)}

-----------------------------------------------------------------------------
(* State machine *)

Nil == [t |-> "nil"]

Init ==
    /\ APP_ID \in CredIds
    /\ APP_KEY \in CredKeys
    /\ pc = "idle"
    /\ call = Nil
    /\ req = Nil
    /\ gets = 0
    /\ outcome = Nil
    /\ result = Nil
    /\ history = <<>>
    /\ levels = Nil

\* a tool is invoked: it builds its parameters and enters call_school_digger_api,
\* which prepares the request (lines 25-30)
Invoke(c) ==
    /\ pc = "idle"
    /\ pc' = "request"
    /\ call' = c
    /\ req' = PrepareRequest(Dispatch(c).endpoint, Dispatch(c).params)
    /\ gets' = 0
    /\ outcome' = Nil
    /\ result' = Nil
    /\ UNCHANGED <<APP_ID, APP_KEY, history, levels>>

\* HttpGet that tries again when the request fails
HttpGetRetrying(o) ==
    /\ pc = "request"
    /\ gets' = gets + 1
    /\ outcome' = o
    /\ result' = ExceptClause(TryBody(req.url, o))
    /\ pc' = IF TryBody(req.url, o).kind = "raise" THEN "request" ELSE "returned"
    /\ UNCHANGED <<APP_ID, APP_KEY, call, req, history, levels>>

\* HttpGet that answers a repeated request from an earlier call's result
HttpGetCached(o) ==
    /\ pc = "request"
    /\ IF \E i \in DOMAIN history : history[i].req = req
       THEN /\ gets' = gets
            /\ outcome' = Nil
            /\ result' = history[CHOOSE i \in DOMAIN history : history[i].req = req].result
       ELSE /\ gets' = gets + 1
            /\ outcome' = o
            /\ result' = ExceptClause(TryBody(req.url, o))
    /\ pc' = "returned"
    /\ UNCHANGED <<APP_ID, APP_KEY, call, req, history, levels>>

\* requests.get(url, params=base_params) and the rest of the function, lines 31-36
HttpGet(o) ==
    /\ pc = "request"
    /\ gets' = gets + 1
    /\ outcome' = o
    /\ result' = ExceptClause(TryBody(req.url, o))
    /\ pc' = "returned"
    /\ UNCHANGED <<APP_ID, APP_KEY, call, req, history, levels>>

Completed == [call |-> call, req |-> req, gets |-> gets, outcome |-> outcome, result |-> result]

\* the tool hands its result to the caller; nothing of the call is kept
Return ==
    /\ pc = "returned"
    /\ pc' = "idle"
    /\ call' = Nil
    /\ req' = Nil
    /\ gets' = 0
    /\ outcome' = Nil
    /\ result' = Nil
    /\ UNCHANGED <<APP_ID, APP_KEY, history, levels>>

\* as Return, with the finished call appended to the observer's log
ReturnLogged ==
    /\ pc = "returned"
    /\ pc' = "idle"
    /\ call' = Nil
    /\ req' = Nil
    /\ gets' = 0
    /\ outcome' = Nil
    /\ result' = Nil
    /\ history' = Append(history, Completed)
    /\ UNCHANGED <<APP_ID, APP_KEY, levels>>

\* a read of schooldigger://school-levels, at any point of a tool call
ReadSchoolLevels ==
    /\ levels' = get_school_levels
    /\ UNCHANGED <<APP_ID, APP_KEY, pc, call, req, gets, outcome, result, history>>

Next ==
    \/ \E c \in ToolCalls : Invoke(c)
    \/ \E o \in Outcomes : HttpGet(o)
    \/ Return

Spec == Init /\ [][Next]_vars

\* repeated and interleaved calls, each finished call logged; resource reads at any point
NextRepeat ==
    \/ \E c \in RepeatCalls : Len(history) < MaxCalls /\ Invoke(c)
    \/ \E o \in RepeatOutcomes : HttpGet(o)
    \/ ReturnLogged
    \/ ReadSchoolLevels

SpecRepeat == Init /\ [][NextRepeat]_vars

\* call_school_digger_api called directly with any endpoint and mapping
NextPrimitive ==
    \/ \E c \in DirectCalls : Invoke(c)
    \/ \E o \in RepeatOutcomes : HttpGet(o)
    \/ Return

SpecPrimitive == Init /\ [][NextPrimitive]_vars

-----------------------------------------------------------------------------
(* Properties *)

InFlight == pc \in {"request", "returned"}

CredentialKeys == {"appID", "appKey"}

\* the argument was passed and is a non-empty string
Supplied(arg) == arg.t = "str" /\ arg.v # <<>>

\* v is an object whose only field, error, holds a string
IsErrorObject(v) == v.t = "dict" /\ DOMAIN v.v = {"error"} /\ v.v["error"].t = "str"

ErrorObject(msg) == [t |-> "dict", v |-> [error |-> [t |-> "str", v |-> msg]]]

\* C1: whatever tool is invoked with whatever arguments, the parameters handed to
\* the GET hold appID and appKey, and their values are the configured credentials.
C1_CredentialsSent ==
    InFlight =>
        /\ CredentialKeys \subseteq DOMAIN req.params
        /\ req.params["appID"] = APP_ID
        /\ req.params["appKey"] = APP_KEY

C1_Witness ==
    /\ pc = "request"
    /\ call.tool = "search_autocomplete_schools"
    /\ call.args.query = Str(<<"L">>)
    /\ APP_ID = Str(<<"id">>)
    /\ APP_KEY = Str(<<"key">>)
    /\ req.params["appID"] = Str(<<"id">>)
    /\ req.params["q"] = Str(<<"L">>)

\* C2: whatever the GET does, the tool returns a value and no exception escapes;
\* when the GET fails (connection error, timeout) the value is exactly
\* {error: <the exception's message>}, and an error status gives an error object too.
C2_NeverRaises ==
    pc = "returned" =>
        /\ result.kind = "return"
        /\ outcome.kind = "raise" => result.v = ErrorObject(outcome.exc.msg)
        /\ (outcome.kind = "response" /\ outcome.status >= 400) => IsErrorObject(result.v)

C2_Witness ==
    /\ pc = "returned"
    /\ call.tool = "get_district_details"
    /\ outcome.kind = "raise"
    /\ outcome.exc.cls = "ConnectionError"
    /\ result = Returned(ErrorObject(<<"Connection refused">>))

Is2xx(status) == 200 <= status /\ status < 300

\* C3 as claimed: the decoded body is returned exactly when the status is 2xx, and
\* every other status gives the synthesized error object, never the response body.
C3_Original ==
    (pc = "returned" /\ outcome.kind = "response") =>
        IF Is2xx(outcome.status)
        THEN IsJson(outcome.body) /\ result = Returned(json_loads(outcome.body))
        ELSE /\ result.kind = "return"
             /\ IsErrorObject(result.v)
             /\ result.v # json_loads(outcome.body)

\* C3 as amended: the decoded body is returned exactly when the status is not 4xx or
\* 5xx and the body decodes as JSON; a 4xx or 5xx status gives the synthesized error
\* object with the HTTP error's message, never the body; a body that does not decode
\* gives the synthesized error object of the decoding error.
C3_Amended ==
    (pc = "returned" /\ outcome.kind = "response") =>
        LET isError == 400 <= outcome.status /\ outcome.status < 600
        IN  /\ result.kind = "return"
            /\ (~isError /\ IsJson(outcome.body)) => result.v = json_loads(outcome.body)
            /\ isError =>
                  /\ IsErrorObject(result.v)
                  /\ result.v # json_loads(outcome.body)
                  /\ result.v.v["error"].v[1] = ToString(outcome.status)
            /\ (~isError /\ ~IsJson(outcome.body)) =>
                  result.v = ErrorObject(<<"Expecting value">>)

C3_Witness ==
    /\ pc = "returned"
    /\ outcome = Response(304, BodyObject)
    /\ result = Returned(Dict([numberOfSchools |-> Num(0)]))

\* the query key k is sent exactly when argument arg was supplied non-empty, with its value
KeyIffSupplied(k, arg) ==
    /\ k \in DOMAIN req.params <=> Supplied(arg)
    /\ Supplied(arg) => req.params[k] = arg

BaseUrl == <<"https:", "/", "/", "api.schooldigger.com", "/", "v2.3", "/">>

\* C6: get_school_details(id) requests exactly <base>schools/<id> and
\* get_district_details(id) exactly <base>districts/<id>, and the parameters of that
\* request are the credential pair and nothing else.
C6_DetailsRequest ==
    /\ (InFlight /\ call.tool = "get_school_details") =>
          /\ req.url = BaseUrl \o <<"schools", "/">> \o call.args.school_id.v
          /\ req.params = [appID |-> APP_ID, appKey |-> APP_KEY]
    /\ (InFlight /\ call.tool = "get_district_details") =>
          /\ req.url = BaseUrl \o <<"districts", "/">> \o call.args.district_id.v
          /\ req.params = [appID |-> APP_ID, appKey |-> APP_KEY]

C6_Witness ==
    /\ pc = "request"
    /\ call.tool = "get_school_details"
    /\ call.args.school_id = Str(<<"7", "/">>)
    /\ req.url = <<"https:", "/", "/", "api.schooldigger.com", "/", "v2.3", "/",
                   "schools", "/", "7", "/">>
    /\ DOMAIN req.params = {"appID", "appKey"}

\* C7: an invocation has issued no GET before its request is made and exactly one
\* when it returns, whether the GET succeeded or failed: no retry, no return
\* without a GET.
C7_ExactlyOneGet ==
    /\ pc = "idle" => gets = 0
    /\ pc = "request" => gets = 0
    /\ pc = "returned" => gets = 1

C7_Witness ==
    /\ pc = "returned"
    /\ outcome.kind = "raise"
    /\ gets = 1
    /\ IsErrorObject(result.v)

\* what the caller gets for upstream answer o to a request of url, written out
AnswerTo(url, o) ==
    IF o.kind = "raise" THEN ErrorObject(o.exc.msg)
    ELSE IF o.status = 404
    THEN ErrorObject(<<"404", " Client Error for url: ">> \o url)
    ELSE IF o.body = BodyObject THEN [t |-> "dict", v |-> [numberOfSchools |-> Num(0)]]
    ELSE [t |-> "list", v |-> <<>>]

\* C8: two finished calls of the same tool with the same arguments made two
\* requests with the same url and parameters, each with a GET of its own, and each
\* call's result is the one its own GET's answer gives: nothing is reused.
C8_NoReuse ==
    \A i, j \in DOMAIN history :
        history[i].call = history[j].call =>
            /\ history[i].req = history[j].req
            /\ history[i].gets = 1 /\ history[j].gets = 1
            /\ history[j].outcome \in RepeatOutcomes
            /\ history[j].result = Returned(AnswerTo(history[j].req.url, history[j].outcome))

C8_Witness ==
    /\ Len(history) = 2
    /\ history[1].call = history[2].call
    /\ history[1].call.tool = "search_schools"
    /\ history[1].req = history[2].req
    /\ history[1].outcome.kind = "raise"
    /\ history[2].outcome = Response(200, BodyObject)
    /\ history[2].result = Returned(Dict([numberOfSchools |-> Num(0)]))

\* C9: a read of schooldigger://school-levels always gives the same fixed text,
\* whatever the credentials and whatever tool calls came before or are under way,
\* and the read changes nothing of a call: it issues no GET.
C9_StaticResource ==
    /\ [](levels # Nil => levels = Str(SchoolLevelsText))
    /\ [][levels' # levels => (gets' = gets /\ pc' = pc /\ req' = req /\ history' = history)]_vars

C9_Witness ==
    /\ levels = Str(SchoolLevelsText)
    /\ APP_ID = None
    /\ pc = "returned"
    /\ outcome.kind = "raise"
    /\ Len(history) = 1
    /\ IsErrorObject(history[1].result.v)

\* C10: for call_school_digger_api(endpoint, params) with any mapping or none, the
\* keys sent are appID, appKey and the caller's keys; every caller's key carries the
\* caller's value and a credential key the caller did not give carries the credential.
C10_MergedKeys ==
    (InFlight /\ call.tool = "call_school_digger_api") =>
        LET given == call.args.params
            keys  == IF given.t = "dict" THEN DOMAIN given.v ELSE {}
        IN  /\ DOMAIN req.params = CredentialKeys \cup keys
            /\ \A k \in keys : req.params[k] = given.v[k]
            /\ "appID" \notin keys => req.params["appID"] = APP_ID
            /\ "appKey" \notin keys => req.params["appKey"] = APP_KEY

C10_Witness ==
    /\ pc = "request"
    /\ call.tool = "call_school_digger_api"
    /\ call.args.params = Dict([appKey |-> Str(<<"other">>), perPage |-> Num(5)])
    /\ APP_KEY = Str(<<"key">>)
    /\ DOMAIN req.params = {"appID", "appKey", "perPage"}
    /\ req.params["appKey"] = Str(<<"other">>)

====
